---------------------------- MODULE Spec2Model ----------------------------
(***************************************************************************)
(* Model of the CQDAM analysis scripts:                                    *)
(*   analysis/fit-throughput-model.py   (fit_batched_service_model,        *)
(*                                       generate_figure, main)            *)
(*   analysis/validate-invariants.py    (the three invariant checks, main) *)
(*   analysis/generate-figures.py       (figure1_throughput_vs_pipeline)   *)
(*                                                                         *)
(* Floating-point values are modelled as exact decimal-scaled rationals    *)
(* n/d * 10^e together with the IEEE specials NaN, +inf and -inf, so that  *)
(* the unit conversions (1e6, 1e9, /1000) and the divisions by zero of the *)
(* scripts are computed rather than assumed.  Rounding is not modelled,    *)
(* except in Sqrt, which truncates to three significant digits.            *)
(***************************************************************************)
EXTENDS Integers, Sequences, FiniteSets, TLC

(***************************************************************************)
(* Numbers                                                                 *)
(***************************************************************************)
Abs(i) == IF i < 0 THEN -i ELSE i

RECURSIVE Gcd(_, _)
Gcd(a, b) == IF b = 0 THEN a ELSE Gcd(b, a % b)

RECURSIVE Pow10(_)
Pow10(k) == IF k = 0 THEN 1 ELSE 10 * Pow10(k - 1)

Fin(n, d, e) == [k |-> "fin", n |-> n, d |-> d, e |-> e]
NaN  == [k |-> "nan",  n |-> 0, d |-> 1, e |-> 0]
PInf == [k |-> "pinf", n |-> 0, d |-> 1, e |-> 0]
NInf == [k |-> "ninf", n |-> 0, d |-> 1, e |-> 0]
Zero == Fin(0, 1, 0)

IsFin(a) == a.k = "fin"
IsNaN(a) == a.k = "nan"

\* Canonical form of n/d * 10^e (d > 0): gcd(n, d) = 1, d coprime to 10,
\* n not a multiple of 10.  Equal values have equal canonical forms.
RECURSIVE Canon(_, _, _)
Canon(n, d, e) ==
    IF n = 0 THEN Zero
    ELSE IF d % 2 = 0 THEN
             IF n % 2 = 0 THEN Canon(n \div 2, d \div 2, e)
                          ELSE Canon(n * 5, d \div 2, e - 1)
    ELSE IF d % 5 = 0 THEN
             IF n % 5 = 0 THEN Canon(n \div 5, d \div 5, e)
                          ELSE Canon(n * 2, d \div 5, e - 1)
    ELSE IF n % 10 = 0 THEN Canon(n \div 10, d, e + 1)
    ELSE LET g == Gcd(Abs(n), d) IN Fin(n \div g, d \div g, e)

FromInt(i) == Canon(i, 1, 0)
\* The literal m * 10^e of the source (1e6, 1e-9, 69.6, ...).
Lit(m, e) == Canon(m, 1, e)

Sign(a) == CASE a.k = "nan"  -> 0
             [] a.k = "pinf" -> 1
             [] a.k = "ninf" -> -1
             [] OTHER -> IF a.n > 0 THEN 1 ELSE IF a.n < 0 THEN -1 ELSE 0

Neg(a) == CASE a.k = "fin"  -> Fin(-a.n, a.d, a.e)
            [] a.k = "pinf" -> NInf
            [] a.k = "ninf" -> PInf
            [] OTHER -> NaN

Add(a, b) ==
    CASE IsNaN(a) \/ IsNaN(b) -> NaN
      [] IsFin(a) /\ IsFin(b) /\ a.n = 0 -> b
      [] IsFin(a) /\ IsFin(b) /\ b.n = 0 -> a
      [] IsFin(a) /\ IsFin(b) ->
            LET e  == IF a.e < b.e THEN a.e ELSE b.e
                g  == Gcd(a.d, b.d)
                na == a.n * Pow10(a.e - e) * (b.d \div g)
                nb == b.n * Pow10(b.e - e) * (a.d \div g)
            IN  Canon(na + nb, (a.d \div g) * b.d, e)
      [] IsFin(a) -> b
      [] IsFin(b) -> a
      [] OTHER -> IF a.k = b.k THEN a ELSE NaN

Sub(a, b) == Add(a, Neg(b))

Mul(a, b) ==
    CASE IsNaN(a) \/ IsNaN(b) -> NaN
      [] IsFin(a) /\ IsFin(b) ->
            LET g1 == Gcd(Abs(a.n), b.d)
                g2 == Gcd(Abs(b.n), a.d)
            IN  IF a.n = 0 \/ b.n = 0 THEN Zero
                ELSE Canon((a.n \div g1) * (b.n \div g2),
                           (a.d \div g2) * (b.d \div g1), a.e + b.e)
      [] OTHER -> LET s == Sign(a) * Sign(b)
                  IN  IF s = 0 THEN NaN ELSE IF s > 0 THEN PInf ELSE NInf

\* numpy float division: x/0 is +-inf (0/0 is NaN) with a warning, no exception.
Div(a, b) ==
    CASE IsNaN(a) \/ IsNaN(b) -> NaN
      [] IsFin(a) /\ IsFin(b) ->
            IF b.n = 0
            THEN IF a.n = 0 THEN NaN ELSE IF a.n > 0 THEN PInf ELSE NInf
            ELSE LET s == IF b.n < 0 THEN -1 ELSE 1
                 IN  Mul(a, Fin(s * b.d, Abs(b.n), -b.e))
      [] IsFin(a) -> Zero
      [] IsFin(b) -> IF Sign(a) * (IF b.n < 0 THEN -1 ELSE 1) > 0
                     THEN PInf ELSE NInf
      [] OTHER -> NaN

\* IEEE comparisons: every comparison with NaN is false.
Lt(a, b) == ~IsNaN(a) /\ ~IsNaN(b) /\ a # b /\ Sign(Sub(b, a)) > 0
Leq(a, b) == ~IsNaN(a) /\ ~IsNaN(b) /\ (a = b \/ Sign(Sub(b, a)) > 0)
Gt(a, b) == Lt(b, a)

\* The integer square root of m, by bisection: lo * lo <= m < hi * hi.
RECURSIVE ISqrtBetween(_, _, _)
ISqrtBetween(m, lo, hi) ==
    IF hi - lo <= 1 THEN lo
    ELSE LET mid == (lo + hi) \div 2
         IN  IF mid * mid <= m THEN ISqrtBetween(m, mid, hi)
                               ELSE ISqrtBetween(m, lo, mid)

\* Scale n/d * 10^e (n, d > 0, e even) until its mantissa n \div d has at
\* least five digits (or n cannot be scaled further), then take the integer
\* square root of the mantissa.
RECURSIVE SqrtScaled(_, _, _)
SqrtScaled(n, d, e) ==
    IF n \div d >= 10000 \/ n >= 20000000
    THEN Canon(ISqrtBetween(n \div d, 0, 46341), 1, e \div 2)
    ELSE SqrtScaled(n * 100, d, e - 2)

Sqrt(a) ==
    CASE a.k = "nan" \/ a.k = "ninf" -> NaN
      [] a.k = "pinf" -> PInf
      [] OTHER -> IF a.n < 0 THEN NaN
                  ELSE IF a.n = 0 THEN Zero
                  ELSE IF a.e % 2 = 0 THEN SqrtScaled(a.n, a.d, a.e)
                  ELSE SqrtScaled(a.n * 10, a.d, a.e - 1)

(***************************************************************************)
(* Sequences of numbers                                                    *)
(***************************************************************************)
RECURSIVE SumSeq(_)
SumSeq(s) == IF s = <<>> THEN Zero ELSE Add(Head(s), SumSeq(Tail(s)))

\* np.mean of a non-empty array.
Mean(s) == Div(SumSeq(s), FromInt(Len(s)))

Square(a) == Mul(a, a)

\* np.sum((a - b)**2) for two arrays of the same length.
SumSqDiff(a, b) == SumSeq([i \in 1..Len(a) |-> Square(Sub(a[i], b[i]))])

\* np.sum((a - m)**2) for an array and a scalar.
SumSqDev(a, m) == SumSeq([i \in 1..Len(a) |-> Square(Sub(a[i], m))])

AllFinite(s) == \A i \in 1..Len(s) : IsFin(s[i])

(***************************************************************************)
(* Input files.  A benchmark CSV file is what the scripts read of it: the  *)
(* pipeline depth in its name (P<digits>), whether it has an rps and a     *)
(* p50_latency_ms column, how many rows it has, and the first row's two    *)
(* values (NaN for an empty cell, as pandas reads it).                     *)
(***************************************************************************)
CsvFile(p_match, p, has_rps, rows, rps, has_p50, p50_ms) ==
    [p_match |-> p_match, p |-> p, has_rps |-> has_rps, rows |-> rows,
     rps |-> rps, has_p50 |-> has_p50, p50_ms |-> p50_ms]

\* The most files a run finds in ../data/bench.
MaxFiles == 5

None == [none |-> TRUE]

(***************************************************************************)
(* fit-throughput-model.py                                                 *)
(***************************************************************************)
\* The loop of lines 27-39: one (p, throughput) point per file that has an
\* rps column, at least one row and a P<digits> name.
FitUsable(f) == f.has_rps /\ f.rows > 0 /\ f.p_match

RECURSIVE CollectDataPoints(_)
CollectDataPoints(files) ==
    IF files = <<>> THEN <<>>
    ELSE LET f == Head(files)
             rest == CollectDataPoints(Tail(files))
         IN  IF FitUsable(f) THEN <<[p |-> f.p, T |-> f.rps]>> \o rest
             ELSE rest

\* Python's tuple order on (p, T).
PointLt(a, b) == a.p < b.p \/ (a.p = b.p /\ Lt(a.T, b.T))

RECURSIVE InsertPoint(_, _)
InsertPoint(s, pt) ==
    IF s = <<>> THEN <<pt>>
    ELSE IF PointLt(pt, Head(s)) THEN <<pt>> \o s
    ELSE <<Head(s)>> \o InsertPoint(Tail(s), pt)

\* data_points.sort() (line 46).
RECURSIVE SortPoints(_)
SortPoints(s) ==
    IF s = <<>> THEN <<>> ELSE InsertPoint(SortPoints(Tail(s)), Head(s))

\* np.polyfit(x, y, 1): the least-squares line <<slope, intercept>>.  With a
\* single distinct x the system is rank deficient and numpy returns the
\* minimum-norm solution of the column-scaled system (a RankWarning, no
\* exception): slope = mean(y)/(2x), intercept = mean(y)/2.  A non-finite y
\* propagates to both coefficients.
Polyfit(x, y) ==
    IF ~AllFinite(y) THEN <<NaN, NaN>>
    ELSE LET x_mean == Mean(x)
             y_mean == Mean(y)
             sxx == SumSqDev(x, x_mean)
             sxy == SumSeq([i \in 1..Len(x) |->
                              Mul(Sub(x[i], x_mean), Sub(y[i], y_mean))])
         IN  IF sxx # Zero
             THEN LET slope == Div(sxy, sxx)
                  IN  <<slope, Sub(y_mean, Mul(slope, x_mean))>>
             ELSE <<Div(y_mean, Mul(FromInt(2), x[1])),
                    Div(y_mean, FromInt(2))>>

\* scipy.stats.t.ppf(0.975, df), to three decimals; NaN for df <= 0.
TCrit(df) ==
    CASE df = 1 -> Lit(12706, -3)
      [] df = 2 -> Lit(4303, -3)
      [] df = 3 -> Lit(3182, -3)
      [] df = 4 -> Lit(2776, -3)
      [] df = 5 -> Lit(2571, -3)
      [] df = 6 -> Lit(2447, -3)
      [] df = 7 -> Lit(2365, -3)
      [] df = 8 -> Lit(2306, -3)
      [] OTHER  -> IF df <= 0 THEN NaN ELSE Lit(2262, -3)

\* The minimum number of data points (line 41).
MinDataPoints == 5

\* TmaxMops without the guard on the sign of t1.
TmaxMopsUnguarded(t1_sec) == Div(FromInt(1), Mul(t1_sec, Lit(1, 6)))

\* 'Tmax_Mops_s' (line 89).
TmaxMops(t1_sec) ==
    IF Gt(t1_sec, Zero) THEN Div(FromInt(1), Mul(t1_sec, Lit(1, 6)))
    ELSE PInf

\* ConfidenceInterval with the half-width added at both ends.
ConfidenceIntervalAdded(est, t_crit, se, unit) ==
    <<Add(est, Mul(Mul(t_crit, se), unit)), Add(est, Mul(Mul(t_crit, se), unit))>>

\* The 95% confidence interval [est - t_crit*se*unit, est + t_crit*se*unit]
\* (lines 80-81).
ConfidenceInterval(est, t_crit, se, unit) ==
    <<Sub(est, Mul(Mul(t_crit, se), unit)), Add(est, Mul(Mul(t_crit, se), unit))>>

\* RSquared without the complement: the unexplained share ss_res / ss_tot.
RSquaredUnexplained(ss_res, ss_tot) == Div(ss_res, ss_tot)

\* r_squared = 1 - (ss_res / ss_tot) (line 67), a numpy division.
RSquared(ss_res, ss_tot) == Sub(FromInt(1), Div(ss_res, ss_tot))

\* Lines 46-57: x = p, y = p / T and the coefficients <<t1_sec, t0_sec>> of
\* the least-squares line through the sorted points.
FitCoeffs(points) ==
    LET n == Len(points)
        x == [i \in 1..n |-> FromInt(points[i].p)]
        y == [i \in 1..n |-> Div(FromInt(points[i].p), points[i].T)]
    IN  Polyfit(x, y)

\* Lines 45-92: the regression on the sorted points and the result record.
FitResults(points) ==
    LET n == Len(points)
        x == [i \in 1..n |-> FromInt(points[i].p)]
        y == [i \in 1..n |-> Div(FromInt(points[i].p), points[i].T)]
        coeffs == FitCoeffs(points)
        t1_sec == coeffs[1]
        t0_sec == coeffs[2]
        t0_us == Mul(t0_sec, Lit(1, 6))
        t1_ns == Mul(t1_sec, Lit(1, 9))
        y_pred == [i \in 1..n |-> Add(t0_sec, Mul(t1_sec, x[i]))]
        ss_res == SumSqDiff(y, y_pred)
        ss_tot == SumSqDev(y, Mean(y))
        r_squared == RSquared(ss_res, ss_tot)
        mse == Div(ss_res, FromInt(n - 2))
        x_mean == Mean(x)
        sxx == SumSqDev(x, x_mean)
        se_t1_sec == Sqrt(Div(mse, sxx))
        se_t0_sec == Sqrt(Mul(mse, Add(Div(FromInt(1), FromInt(n)),
                                       Div(Square(x_mean), sxx))))
        t_crit == TCrit(n - 2)
    IN  [t0_us_per_batch |-> t0_us,
         t1_ns_per_op |-> t1_ns,
         r_squared |-> r_squared,
         t0_confidence_interval |->
             ConfidenceInterval(t0_us, t_crit, se_t0_sec, Lit(1, 6)),
         t1_confidence_interval |->
             ConfidenceInterval(t1_ns, t_crit, se_t1_sec, Lit(1, 9)),
         Tmax_Mops_s |-> TmaxMops(t1_sec),
         data_points |-> n,
         raw_data |-> [i \in 1..n |-> <<FromInt(points[i].p), points[i].T>>]]

\* FitBatchedServiceModel attempting the fit from two observations on.
FitBatchedServiceModelFromTwo(files) ==
    LET collected == CollectDataPoints(files)
    IN  IF Len(collected) < 2 THEN None
        ELSE FitResults(SortPoints(collected))

\* fit_batched_service_model(csv_files): None below the minimum count.
FitBatchedServiceModel(files) ==
    LET collected == CollectDataPoints(files)
    IN  IF Len(collected) < MinDataPoints THEN None
        ELSE FitResults(SortPoints(collected))

\* generate_figure's knee annotation (lines 125-126), on the Python floats of
\* the result record: a zero divisor raises ZeroDivisionError.  The value is
\* <<"ok", knee_p>> or <<"ZeroDivisionError", NaN>>.
KneeOfResults(res) ==
    LET num == Mul(res.t0_us_per_batch, Lit(1, -6))
        den == Mul(res.t1_ns_per_op, Lit(1, -9))
    IN  IF den = Zero THEN <<"ZeroDivisionError", NaN>>
        ELSE <<"ok", Div(num, den)>>

(***************************************************************************)
(* generate-figures.py                                                     *)
(***************************************************************************)
\* load_benchmark_data (lines 32-69) keeps the files with an rps column, a
\* P<digits> name and a first row (reading the first row of an empty file
\* raises, and the file is skipped); the number of clients is the C<digits>
\* of the name, 50 without one, which is the case of every file here, so
\* figure1's C=50 filter (line 74) keeps them all.
\* figure1_throughput_vs_pipeline (lines 71-125) on those rows: None without
\* data, else the returned t0_us, t1_ns and r_squared, and the knee_p of the
\* annotation (line 109, a numpy division: no exception on t1 = 0).
Figure1ThroughputVsPipeline(files) ==
    LET c50_data == SortPoints(CollectDataPoints(files))
        n == Len(c50_data)
        x == [i \in 1..n |-> FromInt(c50_data[i].p)]
        y == [i \in 1..n |-> Div(FromInt(c50_data[i].p), c50_data[i].T)]
        coeffs == Polyfit(x, y)
        t1 == coeffs[1]
        t0 == coeffs[2]
        y_pred == [i \in 1..n |-> Add(t0, Mul(t1, x[i]))]
    IN  IF n = 0 THEN None
        ELSE [t0_us |-> t0,
              t1_ns |-> Mul(t1, FromInt(1000)),
              r_squared |-> Sub(FromInt(1), Div(SumSqDiff(y, y_pred),
                                                SumSqDev(y, Mean(y)))),
              knee_p |-> Div(t0, t1)]

(***************************************************************************)
(* The benchmark directory of the fit script's runs: files P<p> whose      *)
(* first row has rps = p / (k microseconds), for p in Depths and k in      *)
(* YMicros, and four files that are not well-formed observations.          *)
(***************************************************************************)
Depths == {1, 2, 3}
YMicros == {1, 2, 3}

GoodFile(p, k) ==
    CsvFile(TRUE, p, TRUE, 1, Div(Lit(p, 6), FromInt(k)), FALSE, NaN)
ZeroRpsFile == CsvFile(TRUE, 1, TRUE, 1, Zero, FALSE, NaN)
NegRpsFile == CsvFile(TRUE, 2, TRUE, 1, Lit(-1, 6), FALSE, NaN)
NoRpsFile == CsvFile(TRUE, 3, FALSE, 1, NaN, FALSE, NaN)
EmptyFile == CsvFile(TRUE, 3, TRUE, 0, NaN, FALSE, NaN)

RECURSIVE SetToSeq(_)
SetToSeq(S) ==
    IF S = {} THEN <<>>
    ELSE LET m == CHOOSE a \in S : \A b \in S : a[1] < b[1] \/ (a[1] = b[1] /\ a[2] <= b[2])
         IN  <<m>> \o SetToSeq(S \ {m})

GoodFiles ==
    LET pairs == SetToSeq(Depths \X YMicros)
    IN  [j \in 1..Len(pairs) |-> GoodFile(pairs[j][1], pairs[j][2])]

FitCatalogue == GoodFiles \o <<ZeroRpsFile, NegRpsFile, NoRpsFile, EmptyFile>>

IndexIn(cat, f) == CHOOSE j \in 1..Len(cat) : cat[j] = f

(***************************************************************************)
(* validate-invariants.py                                                  *)
(***************************************************************************)
\* The default concurrency C of both checks (lines 18 and 58).
DefaultC == 50

\* One file of validate_pipeline_closure's loop (lines 26-45): "skip" when
\* a column or the P<digits> name is missing, or when reading the first row
\* raises (no row; the except clause continues), else the observation's
\* (p, lhs, rhs) with the outcome of lhs <= rhs.
ClosureOfFile(f, C) ==
    IF ~(f.has_rps /\ f.has_p50) \/ ~f.p_match \/ f.rows = 0
    THEN [kind |-> "skip"]
    ELSE LET p50_s == Div(f.p50_ms, FromInt(1000))
             lhs == Mul(f.rps, p50_s)
             rhs == FromInt(C * f.p)
         IN  [kind |-> IF Leq(lhs, rhs) THEN "valid" ELSE "violation",
              point |-> <<f.p, lhs, rhs>>]

\* The points appended to valid_points (kind "valid") or to violations
\* (kind "violation"), in file order.
RECURSIVE ClosurePoints(_, _, _)
ClosurePoints(files, C, kind) ==
    IF files = <<>> THEN <<>>
    ELSE LET r == ClosureOfFile(Head(files), C)
             rest == ClosurePoints(Tail(files), C, kind)
         IN  IF r.kind = kind THEN <<r.point>> \o rest ELSE rest

\* validate_pipeline_closure(csv_files, C) (lines 18-56).
ValidatePipelineClosure(files, C) ==
    LET violations_ == ClosurePoints(files, C, "violation")
        valid_points == ClosurePoints(files, C, "valid")
    IN  [passed |-> Len(violations_) = 0,
         valid_points |-> valid_points,
         violations |-> violations_]

\* main, lines 127-132: the sorted distinct depths of the file names.
RECURSIVE SortedSeq(_)
SortedSeq(S) ==
    IF S = {} THEN <<>>
    ELSE LET m == CHOOSE a \in S : \A b \in S : a <= b
         IN  <<m>> \o SortedSeq(S \ {m})

PValues(files) ==
    SortedSeq({files[i].p : i \in {i \in 1..Len(files) : files[i].p_match}})

\* validate_syscall_invariant(p_values, C) (lines 58-72): 2 / (C * p) on
\* Python ints raises ZeroDivisionError for p = 0.
ValidateSyscallInvariant(p_values, C) ==
    IF \E i \in 1..Len(p_values) : C * p_values[i] = 0
    THEN [raised |-> "ZeroDivisionError"]
    ELSE [raised |-> "no",
          passed |-> TRUE,
          theoretical_values |->
              [i \in 1..Len(p_values) |->
                  <<p_values[i], Div(FromInt(2), FromInt(C * p_values[i]))>>]]


(***************************************************************************)
(* The benchmark directory of the validation script's runs.                *)
(***************************************************************************)
LatencyFile(p, rps, p50_ms) == CsvFile(TRUE, p, TRUE, 1, rps, TRUE, p50_ms)

ValCatalogue ==
    << LatencyFile(1, Lit(1, 6), Lit(5, -2)),     \* lhs 50 = rhs 50
       LatencyFile(1, Lit(1, 6), Lit(2, -1)),     \* lhs 200 > rhs 50
       LatencyFile(1, Lit(1, 6), NaN),            \* empty p50 cell
       CsvFile(TRUE, 1, TRUE, 1, Lit(1, 6), FALSE, NaN),   \* no p50 column
       LatencyFile(2, Lit(1, 6), Lit(8, -2)),     \* lhs 80 <= rhs 100
       LatencyFile(2, Lit(1, 6), Lit(2, -1)),     \* lhs 200 > rhs 100
       LatencyFile(2, Lit(2, 6), Lit(4, -2)),     \* lhs 80 <= rhs 100
       LatencyFile(10, Lit(1, 5), FromInt(4)),    \* lhs 400 <= rhs 500
       LatencyFile(10, Lit(1, 5), FromInt(20)),   \* lhs 2000 > rhs 500
       CsvFile(TRUE, 0, TRUE, 1, Lit(1, 6), FALSE, NaN),   \* P0, no p50 column
       CsvFile(FALSE, 0, TRUE, 1, Lit(1, 6), TRUE, Lit(5, -2)),  \* no P<n> in name
       CsvFile(TRUE, 2, TRUE, 0, NaN, TRUE, NaN) >>         \* header only

\* ValidateCyclesPerOpBand with the estimate taken from the t1 fitted to the
\* files (0 when there is no fit), not from the paper's 69.6 ns/op.
ValidateCyclesFromFit(files) ==
    LET points == SortPoints(CollectDataPoints(files))
    IN  [passed |-> TRUE,
         estimate |-> IF Len(points) < MinDataPoints THEN Zero
                      ELSE Mul(Mul(FitCoeffs(points)[1], Lit(1, 9)),
                               Lit(35, -1))]

\* validate_cycles_per_op_band(csv_files) (lines 74-87): 69.6 * 3.5.
ValidateCyclesPerOpBand(files) ==
    [passed |-> TRUE, estimate |-> Mul(Lit(696, -1), Lit(35, -1))]

(***************************************************************************)
(* State                                                                   *)
(***************************************************************************)
VARIABLES
    csv_files,   \* glob.glob(data_dir/*.csv): the files of the run
    pc,          \* where the running script is
    results,     \* fit-throughput-model.py main: results (None before the fit)
    knee_p,      \* generate_figure: knee_p once computed, else None
    saved,       \* model_fit_results.json: the record written, else None
    figure1,     \* generate-figures.py main: model_params with figure 1's
                 \* knee_p, else None
    closure,     \* validate-invariants.py main: closure_valid, closure_points
                 \* and the violations the check printed
    syscall,     \* syscall_valid, syscall_points
    cycles,      \* cycles_valid, cycles_estimate
    summary,     \* the three PASS/FAIL lines printed (lines 153-156)
    val_saved    \* invariant_validation_results.json, else None

fit_vars == <<results, knee_p, saved, figure1>>
val_vars == <<closure, syscall, cycles, summary, val_saved>>
vars == <<csv_files, pc, results, knee_p, saved, figure1,
          closure, syscall, cycles, summary, val_saved>>

Init ==
    /\ csv_files = <<>>
    /\ pc = "glob"
    /\ results = None
    /\ knee_p = None
    /\ saved = None
    /\ figure1 = None
    /\ closure = None
    /\ syscall = None
    /\ cycles = None
    /\ summary = None
    /\ val_saved = None

\* One more file found in the data directory.  glob's order is arbitrary and
\* no result depends on it (the fit sorts its points, line 46), so a run's
\* files are listed in catalogue order.
Glob(cat) ==
    /\ pc = "glob"
    /\ Len(csv_files) < MaxFiles
    /\ \E j \in 1..Len(cat) :
          /\ csv_files # <<>> => j >= IndexIn(cat, csv_files[Len(csv_files)])
          /\ csv_files' = Append(csv_files, cat[j])
    /\ UNCHANGED <<pc, fit_vars, val_vars>>

\* main (lines 135-169) with no file: "No CSV files found".
FitMainNoFiles ==
    /\ pc = "glob"
    /\ csv_files = <<>>
    /\ pc' = "no_files"
    /\ UNCHANGED <<csv_files, fit_vars, val_vars>>

\* main, lines 144-149 and 168-169: the fit, and "Model fitting failed" when
\* it returns None.
FitMain ==
    /\ pc = "glob"
    /\ csv_files # <<>>
    /\ results' = FitBatchedServiceModel(csv_files)
    /\ pc' = IF results' = None THEN "fit_failed" ELSE "figure"
    /\ UNCHANGED <<csv_files, knee_p, saved, figure1, val_vars>>

\* generate_figure(results, ...) (lines 96-133), called at line 159.
GenerateFigure ==
    /\ pc = "figure"
    /\ LET knee == KneeOfResults(results)
       IN  IF knee[1] = "ok"
           THEN knee_p' = knee[2] /\ pc' = "save"
           ELSE knee_p' = None /\ pc' = "ZeroDivisionError"
    /\ UNCHANGED <<csv_files, results, saved, figure1, val_vars>>

\* json.dump(results, ...) (lines 163-166).
SaveResults ==
    /\ pc = "save"
    /\ saved' = results
    /\ pc' = "done"
    /\ UNCHANGED <<csv_files, results, knee_p, figure1, val_vars>>

\* generate-figures.py main (lines 255-283) on the same directory: the data
\* is loaded and, unless it is empty, figure 1 is drawn.
GenerateFiguresMain ==
    /\ pc = "glob"
    /\ figure1' = Figure1ThroughputVsPipeline(csv_files)
    /\ pc' = IF figure1' = None THEN "no_data" ELSE "figures_done"
    /\ UNCHANGED <<csv_files, results, knee_p, saved, val_vars>>

Next ==
    \/ Glob(FitCatalogue)
    \/ GenerateFiguresMain
    \/ FitMainNoFiles
    \/ FitMain
    \/ GenerateFigure
    \/ SaveResults

Spec == Init /\ [][Next]_vars

(***************************************************************************)
(* validate-invariants.py main (lines 112-177)                             *)
(***************************************************************************)
\* Lines 120-122: "No CSV files found".
ValidateMainNoFiles ==
    /\ pc = "glob"
    /\ csv_files = <<>>
    /\ pc' = "no_files"
    /\ UNCHANGED <<csv_files, fit_vars, val_vars>>

\* Line 139: invariant 1.
RunPipelineClosure ==
    /\ pc = "glob"
    /\ csv_files # <<>>
    /\ closure' = ValidatePipelineClosure(csv_files, DefaultC)
    /\ pc' = "syscall"
    /\ UNCHANGED <<csv_files, fit_vars, syscall, cycles, summary, val_saved>>

\* Line 142: invariant 2, on the depths of lines 127-132.  An exception of
\* the check is not caught by main: the run ends there.
RunSyscallInvariant ==
    /\ pc = "syscall"
    /\ LET r == ValidateSyscallInvariant(PValues(csv_files), DefaultC)
       IN  IF r.raised = "no"
           THEN syscall' = r /\ pc' = "cycles"
           ELSE syscall' = syscall /\ pc' = r.raised
    /\ UNCHANGED <<csv_files, fit_vars, closure, cycles, summary, val_saved>>

\* Line 145: invariant 3.
RunCyclesPerOpBand ==
    /\ pc = "cycles"
    /\ cycles' = ValidateCyclesPerOpBand(csv_files)
    /\ pc' = "summary"
    /\ UNCHANGED <<csv_files, fit_vars, closure, syscall, summary, val_saved>>

\* Lines 152-177: the summary lines and the saved results.
ReportValidation ==
    /\ pc = "summary"
    /\ summary' = [pipeline_closure |-> closure.passed,
                   syscall_budget |-> syscall.passed,
                   cycles_per_op_band |-> cycles.passed]
    /\ val_saved' =
          [pipeline_closure |->
               [valid |-> closure.passed,
                points_tested |-> Len(closure.valid_points)],
           syscall_budget |->
               [valid |-> syscall.passed,
                theoretical_values |-> syscall.theoretical_values],
           cycles_per_op_band |->
               [valid |-> cycles.passed,
                estimated_cycles_per_op |-> cycles.estimate]]
    /\ pc' = "done"
    /\ UNCHANGED <<csv_files, fit_vars, closure, syscall, cycles>>

NextValidate ==
    \/ Glob(ValCatalogue)
    \/ ValidateMainNoFiles
    \/ RunPipelineClosure
    \/ RunSyscallInvariant
    \/ RunCyclesPerOpBand
    \/ ReportValidation

SpecValidate == Init /\ [][NextValidate]_vars

(***************************************************************************)
(* Properties of validate-invariants.py, checked under SpecValidate        *)
(***************************************************************************)
\* An observation the closure check can read: both columns, a depth in the
\* file name, a first row.
Observed(f) == f.p_match /\ f.has_rps /\ f.has_p50 /\ f.rows > 0

\* An observation that carries latency data: its p50 cell is not empty.
LatencyBearing(f) == Observed(f) /\ ~IsNaN(f.p50_ms)

\* throughput * p50_latency_seconds and C * pipeline_depth of an observation.
LhsOf(f) == Div(Mul(f.rps, f.p50_ms), FromInt(1000))
RhsOf(f) == FromInt(DefaultC * f.p)

FilesWhere(P(_)) == {i \in 1..Len(csv_files) : P(csv_files[i])}

Exceeding(f) == LatencyBearing(f) /\ Gt(LhsOf(f), RhsOf(f))
Within(f) == LatencyBearing(f) /\ Leq(LhsOf(f), RhsOf(f))

InSeq(x, s) == \E i \in 1..Len(s) : s[i] = x

\* C1: once validate_pipeline_closure has run, it reports passed iff no
\* latency-bearing observation has throughput * p50_s > C * p; every
\* observation with lhs > rhs is among the violations with its (p, lhs, rhs)
\* and every observation with lhs <= rhs is among the valid points.
C1_PassedIffNoExceeding ==
    closure # None =>
        /\ closure.passed <=> FilesWhere(Exceeding) = {}
        /\ \A i \in FilesWhere(Exceeding) :
              InSeq(<<csv_files[i].p, LhsOf(csv_files[i]), RhsOf(csv_files[i])>>,
                    closure.violations)
        /\ \A i \in FilesWhere(Within) :
              InSeq(<<csv_files[i].p, LhsOf(csv_files[i]), RhsOf(csv_files[i])>>,
                    closure.valid_points)

\* C4: once validate_pipeline_closure has run, the observations without
\* latency data (no p50 column or an empty p50 cell) are in neither list: the
\* two lists hold exactly the latency-bearing observations, and the check
\* has passed whenever every latency-bearing observation is within bounds.
C4_NoLatencySkipped ==
    closure # None =>
        /\ Len(closure.valid_points) + Len(closure.violations)
              = Cardinality(FilesWhere(LatencyBearing))
        /\ FilesWhere(Exceeding) = {} => closure.passed

\* The run's files are enough for the fit (at least MinDataPoints usable
\* observations).
Fittable == Len(CollectDataPoints(csv_files)) >= MinDataPoints

\* The t1 (ns/op) the fit gives on the run's files.
FittedT1Ns == Mul(FitCoeffs(SortPoints(CollectDataPoints(csv_files)))[1], Lit(1, 9))

\* The fit of the run's files has a slope other than the paper's 69.6 ns/op.
FittedT1Differs ==
    /\ Fittable
    /\ IsFin(FittedT1Ns)
    /\ FittedT1Ns # Lit(696, -1)

\* C9 (as stated): once the cycles-per-op check has run it has reported
\* passed, and its estimate is the t1 (ns/op) fitted to the run's files times
\* the 3.5 GHz clock.
C9_EstimateFromFittedT1 ==
    cycles # None =>
        /\ cycles.passed
        /\ Fittable => cycles.estimate = Mul(FittedT1Ns, Lit(35, -1))

\* C9 (amended): once the cycles-per-op check has run it has reported passed
\* and its estimate is the constant 243.6 (69.6 ns/op at 3.5 GHz), whatever
\* the run's files are.
C9_EstimateIsPaperConstant ==
    cycles # None => cycles.passed /\ cycles.estimate = Lit(2436, -1)

\* C9 witness: a finished run whose files fit to a slope other than 69.6
\* ns/op and whose estimate is 243.6.
C9_Witness ==
    /\ pc = "done"
    /\ FittedT1Differs
    /\ val_saved.cycles_per_op_band.estimated_cycles_per_op = Lit(2436, -1)

\* C10: a validation run that found a file and has ended has evaluated the
\* three checks and reported each one's own result in the summary and in the
\* saved results.
C10_AllThreeReported ==
    (csv_files # <<>> /\ pc \notin {"glob", "syscall", "cycles", "summary"}) =>
        /\ pc = "done"
        /\ closure # None /\ syscall # None /\ cycles # None
        /\ summary.pipeline_closure = closure.passed
        /\ summary.syscall_budget = syscall.passed
        /\ summary.cycles_per_op_band = cycles.passed
        /\ val_saved.pipeline_closure.valid = closure.passed
        /\ val_saved.syscall_budget.valid = syscall.passed
        /\ val_saved.cycles_per_op_band.valid = cycles.passed

(***************************************************************************)
(* Properties of fit-throughput-model.py, checked under Spec               *)
(***************************************************************************)
\* The observations the fit uses, and their distinct pipeline depths.
data_points == CollectDataPoints(csv_files)
DistinctDepths == {data_points[i].p : i \in 1..Len(data_points)}

\* fit_batched_service_model has returned.
FitEnded == pc \in {"fit_failed", "figure", "save", "done", "ZeroDivisionError"}

\* Generating parameters, in seconds: t0 from 0 to 4 microseconds per batch,
\* t1 from -1 to 1 microsecond per op.
T0Params == {Lit(m, -7) : m \in {0, 5, 10, 20, 30, 40}}
T1Params == {Lit(m, -7) : m \in {-10, -5, 0, 5, 10}}

\* T = p / (t0 + t1 * p).
ModelThroughput(p, t0, t1) == Div(FromInt(p), Add(t0, Mul(t1, FromInt(p))))

\* The run's observations are at least 5 points of at least 2 distinct
\* depths, each exactly on the model curve of (t0, t1).
NoiseFree(t0, t1) ==
    /\ Len(data_points) >= 5
    /\ Cardinality(DistinctDepths) >= 2
    /\ \A i \in 1..Len(data_points) :
          /\ IsFin(ModelThroughput(data_points[i].p, t0, t1))
          /\ data_points[i].T = ModelThroughput(data_points[i].p, t0, t1)

C3_FewDepthsFail ==
    (FitEnded /\ Cardinality(DistinctDepths) < 2) => results = None

\* An observation with all required fields and a positive throughput.
WellFormed(f) == FitUsable(f) /\ Gt(f.rps, Zero)

\* C5: the fit's points are exactly the well-formed observations (no
\* throughput <= 0 enters y = p/T, and the count returned tells how many
\* records were dropped), and a run with at least the minimum of well-formed
\* observations returns a result.
C5_MalformedDropped ==
    FitEnded =>
        /\ results # None =>
              /\ \A i \in 1..Len(results.raw_data) :
                    Gt(results.raw_data[i][2], Zero)
              /\ results.data_points = Cardinality(FilesWhere(WellFormed))
        /\ Cardinality(FilesWhere(WellFormed)) >= MinDataPoints
              => results # None

\* A valid input of the fit: every observation has depth >= 1 and throughput
\* > 0, and there are at least 2 distinct depths (and n > 2 points).
ValidFitInput ==
    /\ Len(data_points) > 2
    /\ Cardinality(DistinctDepths) >= 2
    /\ \A i \in 1..Len(data_points) :
          data_points[i].p >= 1 /\ Gt(data_points[i].T, Zero)

Contains(ci, est) == Leq(ci[1], est) /\ Leq(est, ci[2])

\* C6: in every result returned on a valid input, each confidence interval
\* contains its point estimate.
C6_IntervalsContainEstimates ==
    (results # None /\ ValidFitInput) =>
        /\ Contains(results.t0_confidence_interval, results.t0_us_per_batch)
        /\ Contains(results.t1_confidence_interval, results.t1_ns_per_op)

\* C6 witness: a result on a valid input whose two intervals are proper
\* intervals (noisy data) around the estimates.
C6_Witness ==
    /\ results # None
    /\ ValidFitInput
    /\ Lt(results.t0_confidence_interval[1], results.t0_us_per_batch)
    /\ Lt(results.t0_us_per_batch, results.t0_confidence_interval[2])
    /\ Lt(results.t1_confidence_interval[1], results.t1_ns_per_op)
    /\ Lt(results.t1_ns_per_op, results.t1_confidence_interval[2])

\* C7: in every result, Tmax_Mops_s is 1/t1 in Mops/s (1000 / t1_ns) when
\* t1 > 0 and +inf when t1 <= 0 (or NaN); it is never a negative number.
C7_TmaxOrSentinel ==
    results # None =>
        /\ Gt(results.t1_ns_per_op, Zero) =>
              results.Tmax_Mops_s = Div(FromInt(1000), results.t1_ns_per_op)
        /\ ~Gt(results.t1_ns_per_op, Zero) => results.Tmax_Mops_s = PInf
        /\ Sign(results.Tmax_Mops_s) > 0

\* C7 witness: a result with a negative slope and Tmax_Mops_s = +inf.
C7_Witness ==
    /\ results # None
    /\ Lt(results.t1_ns_per_op, Zero)
    /\ results.Tmax_Mops_s = PInf

\* C8: generate_figure never ends in a division by zero; its knee_p and the
\* knee_p of figure1_throughput_vs_pipeline satisfy knee_p * t1 = t0 when
\* t1 > 0, and are an undefined (non-finite) sentinel when t1 <= 0.
C8_KneeOrSentinel ==
    /\ pc # "ZeroDivisionError"
    /\ knee_p # None =>
          /\ Gt(results.t1_ns_per_op, Zero) =>
                Mul(knee_p, Mul(results.t1_ns_per_op, Lit(1, -9)))
                    = Mul(results.t0_us_per_batch, Lit(1, -6))
          /\ ~Gt(results.t1_ns_per_op, Zero) => ~IsFin(knee_p)
    /\ figure1 # None =>
          /\ Gt(figure1.t1_ns, Zero) =>
                Mul(figure1.knee_p, figure1.t1_ns)
                    = Mul(figure1.t0_us, FromInt(1000))
          /\ ~Gt(figure1.t1_ns, Zero) => ~IsFin(figure1.knee_p)

\* C11: the fit never reaches MSE = ss_res / (n - 2) with n - 2 <= 0: a run
\* that collected fewer than 5 usable observations (n = 2 among them) ends in
\* the failure with no result record, and every result record was computed
\* from all the n collected observations with n >= 5.
C11_NoFitBelowFive ==
    FitEnded =>
        /\ Len(data_points) < MinDataPoints =>
              results = None /\ pc = "fit_failed"
        /\ results # None =>
              /\ results.data_points = Len(data_points)
              /\ results.data_points >= MinDataPoints
              /\ results.data_points - 2 > 0

\* C11 witness: the fit has returned on exactly two usable observations, with
\* the failure and no result record.
C11_Witness ==
    /\ pc = "fit_failed"
    /\ Len(data_points) = 2
    /\ results = None

\* The raw coefficients <<slope, intercept>>, in seconds, of the line fitted
\* to the run's observations.
RawCoeffs == FitCoeffs(SortPoints(data_points))

\* C12: the t0_us and t1_ns that figure1_throughput_vs_pipeline returns are
\* the raw intercept (seconds) times 10^6 and the raw slope (seconds) times
\* 10^9, and on a set of observations that fit_batched_service_model fits
\* they equal its t0_us_per_batch and t1_ns_per_op.
C12_SameConversion ==
    figure1 # None =>
        /\ figure1.t0_us = Mul(RawCoeffs[2], Lit(1, 6))
        /\ figure1.t1_ns = Mul(RawCoeffs[1], Lit(1, 9))
        /\ Fittable =>
              /\ figure1.t0_us
                    = FitBatchedServiceModel(csv_files).t0_us_per_batch
              /\ figure1.t1_ns
                    = FitBatchedServiceModel(csv_files).t1_ns_per_op

=============================================================================
